---- MODULE Spec2Model ----
(***************************************************************************)
(* Render-resource lifecycle and frame loop of the Template engine:        *)
(* main (template_app/src/main.rs), the winit event handler                *)
(* (template_app/src/app.rs) and the graphics crate (window.rs,            *)
(* context.rs, renderer.rs, mesh.rs, shader.rs).                           *)
(*                                                                         *)
(* The GL server, the window system and the winit event loop are the       *)
(* environment: every fallible call of the source draws its outcome from   *)
(* the environment with \E, and every statement of the source that acts on *)
(* the outcome (?, unwrap, map_err, if let Err) is translated as written.  *)
(***************************************************************************)
EXTENDS Integers, Sequences, FiniteSets, TLC

\* ------------------------------------------------------------------ bounds
\* Resized(w, h) carries w, h in 0..MaxDim (PhysicalSize<u32>, zero included).
MaxDim == 1
\* The monotonic clock behind start_time.elapsed() runs from 0 to MaxTime.
MaxTime == 1

\* ------------------------------------------------------- program constants
InitWidth == 800
InitHeight == 600
FovyDegrees == 45
FloatsPerVertex == 6
CubeFloats == 216
\* f32::EPSILON = 2^-23, the tolerance of relative_eq! in Perspective3::new
EpsilonInv == 8388608
I32Max == 2147483647

\* znear = 0.1 and zfar = 100.0 as exact fractions <<numerator, denominator>>
ZNear == <<1, 10>>
ZFar == <<100, 1>>
\* gl.clear_color(0.2, 0.3, 0.3, 1.0) in tenths
ClearColorTenths == <<2, 3, 3, 10>>

\* Diagnostic texts the GL backend may return as an info log.
Logs == {"log A", "log B"}

None == [kind |-> "None"]

\* ------------------------------------------------------------------ errors
\* TemplateError (errors.rs): the four variants, each carrying one payload.
TemplateError(variant, payload) == [kind |-> "Err", variant |-> variant, payload |-> payload]
Ok(value) == [kind |-> "Ok", value |-> value]
Panic(message) == [kind |-> "Panic", message |-> message]
Running == [kind |-> "Running"]

VARIABLES
    pc,          \* position of main(): the next construction step, "loop", "return", "exited"
    result,      \* what main() is returning: Running, Ok, Err(TemplateError) or Panic
    exitCode,    \* process exit status once pc = "exited", -1 before
    window,      \* the native window: [exists, size]; size is the framebuffer size
    context,     \* the GL rendering context: [state, destroys]
    surface,     \* the presentable surface: [state, size, destroys]
    gl,          \* renderer.gl: "unbuilt", or the entry points the loader resolved
    dev,         \* the GL server state reached through gl
    mesh,        \* the Mesh struct, or None
    shader,      \* the Shader struct, or None
    projection,  \* TemplateApp.projection
    view,        \* TemplateApp.view
    model,       \* TemplateApp.model
    start_time,  \* TemplateApp.start_time
    loop,        \* the winit event loop: [exit, redraw]
    now,         \* the monotonic clock
    ops,         \* device and window-system calls issued by the last step, in order
    last         \* the last event handled: [ev, afterExit, presentOk]

vars == <<pc, result, exitCode, window, context, surface, gl, dev, mesh, shader,
          projection, view, model, start_time, loop, now, ops, last>>


\* ----------------------------------------------------------- number model
RECURSIVE Gcd(_, _)
Gcd(a, b) == IF b = 0 THEN a ELSE Gcd(b, a % b)

\* `width as f32 / height as f32` (app.rs:73): IEEE division of two
\* non-negative integers. x/0 is +infinity for x > 0 and NaN for x = 0; a
\* finite quotient is kept as the fraction in lowest terms, so that equal
\* quotients are equal values.
F32Div(w, h) ==
    IF h = 0
    THEN (IF w = 0 THEN [class |-> "nan"] ELSE [class |-> "inf"])
    ELSE [class |-> "finite", num |-> w \div Gcd(w, h), den |-> h \div Gcd(w, h)]

\* relative_eq!(aspect, 0.0) with the default tolerances: |aspect| <= f32::EPSILON.
\* NaN and infinity compare unequal to zero.
RelativeEqZero(a) == a.class = "finite" /\ a.num <= a.den \div EpsilonInv

\* `x as i32` of an unsigned integer (renderer.rs:72, mesh.rs:101): the low
\* 32 bits, reinterpreted in two's complement.
AsI32(x) == IF x <= I32Max THEN x ELSE ((x - I32Max) - I32Max) - 2

\* --------------------------------------------------------- matrices, camera
\* Perspective3::new(aspect, fovy, znear, zfar): asserts that the aspect is
\* not (relatively) zero, otherwise stores the four parameters.
Perspective3New(aspect, fovy, znear, zfar) ==
    IF znear = zfar \/ RelativeEqZero(aspect)
    THEN Panic("The aspect ratio must not be zero.")
    ELSE Ok([aspect |-> aspect, fovy |-> fovy, znear |-> znear, zfar |-> zfar])

\* A 4x4 rotation/identity matrix is kept as the list of its non-trivial
\* rotation factors, leftmost factor first; the identity is the empty list and
\* the matrix product is concatenation.
Identity == <<>>

\* Matrix4::from_axis_angle(axis, angle), the angle in tenths of a radian:
\* a rotation by 0 is the identity matrix.
FromAxisAngle(axis, angle) ==
    IF angle = 0 THEN Identity ELSE <<[axis |-> axis, angle |-> angle]>>

MatMul(a, b) == a \o b

\* create_view_matrix(): look_at_rh(eye (0,0,3), target origin, up +Y).
create_view_matrix ==
    [eye |-> <<0, 0, 3>>, target |-> <<0, 0, 0>>, up |-> <<0, 1, 0>>]

\* The two rotations multiplied the other way round: rotation_x * rotation_y.
ModelMatrix_x_after_y(elapsed) ==
    LET rotation_x == FromAxisAngle("x", elapsed * 5)
        rotation_y == FromAxisAngle("y", elapsed * 7)
    IN MatMul(rotation_x, rotation_y)

\* The model matrix of window_event's RedrawRequested arm for `elapsed`
\* seconds: rotation_y(0.7 * elapsed) * rotation_x(0.5 * elapsed). Angles are
\* in tenths of a radian per second of elapsed time.
ModelMatrix(elapsed) ==
    LET rotation_x == FromAxisAngle("x", elapsed * 5)
        rotation_y == FromAxisAngle("y", elapsed * 7)
    IN MatMul(rotation_y, rotation_x)

\* ----------------------------------------------------------- the GL server
\* The uniform names render_frame passes to set_matrix4 (app.rs:89-91). The
\* shader sources are files read when the program starts, so which of the
\* names the linked program has as active uniforms is an answer of the
\* environment.
UniformNames == <<"projection", "view", "model">>

\* glGetUniformLocation on the linked program of device d: the location of
\* an active uniform, None for any other name.
GlGetUniformLocation(d, name) ==
    IF name \in d.activeUniforms
    THEN [kind |-> "Some",
          value |-> (CHOOSE i \in 1..Len(UniformNames) : UniformNames[i] = name) - 1]
    ELSE None

\* Entry points that exist only from GL 3.0 on (vertex array objects).
Gl3Functions == {"glGenVertexArrays", "glBindVertexArray"}

\* What the loader function resolved: "full" every entry point, "legacy" all
\* but the GL 3.0 ones, "none" nothing (every lookup returned null).
GlLevels == {"none", "legacy", "full"}

Resolved(level, fn) ==
    CASE level = "full" -> TRUE
      [] level = "legacy" -> fn \notin Gl3Functions
      [] OTHER -> FALSE

NoObject == [kind |-> "none", id |-> 0]

DevInit ==
    [caps |-> {}, cullFace |-> "BACK_default", clearColor |-> <<0, 0, 0, 0>>,
     viewport |-> <<0, 0, 0, 0>>,
     created |-> {}, live |-> {}, deletes |-> <<>>,
     flagged |-> {}, attached |-> {}, linked |-> {},
     currentProgram |-> NoObject, boundVao |-> NoObject, boundBuffer |-> NoObject,
     bufferFloats |-> <<>>, enabledAttribs |-> {}, attribs |-> {},
     activeUniforms |-> {}, uniforms |-> [n \in {} |-> 0],
     newest |-> NoObject,
     framebuffer |-> [state |-> "undefined"], presented |-> [state |-> "nothing"]]

\* A fresh object name of the given kind.
NewObject(d, kind) == [kind |-> kind, id |-> Cardinality(d.created) + 1]

\* The state of one run of straight-line code: the entry points behind gl, the
\* device, the calls issued so far in order, the panic that ended it (None if
\* none), the value an early `return` or `?` is carrying out (None if none),
\* the window's pending redraw request, and the values of the locals and
\* fields the code names.
Exec(level, d, redraw, locals) ==
    [gl |-> level, dev |-> d, ops |-> <<>>, panic |-> None, ret |-> None,
     redraw |-> redraw, locals |-> locals]

NoLocals == [unit |-> 0]

Panicked(x) == x.panic.kind = "Panic"

\* The code after a panic or a return does not run.
Stopped(x) == Panicked(x) \/ x.ret.kind # "None"

\* A command for the GL server: its name, its literal operands, and the
\* operands that are read from locals of the calling code (operand |-> local).
Cmd(k, lits, locs) == [k |-> k, lits |-> lits, locs |-> locs]

NoArgs == <<>>

Operands(cmd, locals) == [n \in DOMAIN cmd.locs |-> locals[cmd.locs[n]]] @@ cmd.lits

\* gl.vertex_attrib_pointer_f32(index, size, FLOAT, false, stride, offset):
\* the layout is recorded in the bound vertex array, for the bound buffer.
VertexAttribPointer(d, index, size, stride, offset) ==
    [d EXCEPT !.attribs =
        {a \in @ : ~(a.vao = d.boundVao /\ a.index = index)}
        \cup {[vao |-> d.boundVao, index |-> index, size |-> size,
               stride |-> stride, offset |-> offset, buffer |-> d.boundBuffer]}]

\* gl.delete_shader: a shader attached to a program is only flagged for
\* deletion and lives on until it is detached; a free one is deleted.
GlDeleteShader(d, sh) ==
    IF \E pair \in d.attached : pair[2] = sh
    THEN [d EXCEPT !.flagged = @ \cup {sh}, !.deletes = Append(@, sh)]
    ELSE [d EXCEPT !.live = @ \ {sh}, !.deletes = Append(@, sh)]

\* What command k with operands a does to the GL server state d.
GlServer(d, k, a) ==
    CASE k = "enable" -> [d EXCEPT !.caps = @ \cup {a.cap}]
      [] k = "cull_face" -> [d EXCEPT !.cullFace = a.mode]
      [] k = "clear_color" -> [d EXCEPT !.clearColor = a.color]
      [] k = "create" ->
           IF a.ok
           THEN [d EXCEPT !.created = @ \cup {NewObject(d, a.kind)},
                          !.live = @ \cup {NewObject(d, a.kind)},
                          !.newest = NewObject(d, a.kind)]
           ELSE d
      [] k = "bind_vertex_array" -> [d EXCEPT !.boundVao = a.vao]
      [] k = "bind_buffer" -> [d EXCEPT !.boundBuffer = a.buffer]
      [] k = "buffer_data" -> [d EXCEPT !.bufferFloats = (d.boundBuffer :> a.len) @@ @]
      [] k = "enable_vertex_attrib_array" ->
           [d EXCEPT !.enabledAttribs = @ \cup {<<d.boundVao, a.index>>}]
      [] k = "vertex_attrib_pointer" ->
           VertexAttribPointer(d, a.index, a.size, a.stride, a.offset)
      [] k = "attach_shader" -> [d EXCEPT !.attached = @ \cup {<<a.program, a.shader>>}]
      [] k = "link_program" ->
           IF a.status = "ok"
           THEN [d EXCEPT !.linked = @ \cup {a.program}, !.activeUniforms = a.active]
           ELSE d
      [] k = "delete_shader" -> GlDeleteShader(d, a.shader)
      [] k = "use_program" -> [d EXCEPT !.currentProgram = a.program]
      [] k = "uniform_matrix_4" -> [d EXCEPT !.uniforms = (a.location :> a.matrix) @@ @]
      [] k = "clear" ->
           [d EXCEPT !.framebuffer = [state |-> "cleared", color |-> d.clearColor]]
      [] k = "viewport" ->
           \* a negative width or height is GL_INVALID_VALUE: no change
           IF a.width < 0 \/ a.height < 0
           THEN d
           ELSE [d EXCEPT !.viewport = <<a.x, a.y, a.width, a.height>>]
      [] k = "draw_arrays" ->
           [d EXCEPT !.framebuffer =
               [state |-> "drawn", mode |-> a.mode, vao |-> d.boundVao, first |-> a.first,
                count |-> a.count, program |-> d.currentProgram,
                uniforms |-> d.uniforms]]
      [] OTHER -> d   \* queries: no change of server state

\* One call through the glow dispatch table: it panics when the entry point
\* was not loaded, otherwise it reaches the device and is recorded.
GlCall(x, fn, op, cmd) ==
    IF Stopped(x) THEN x
    ELSE IF ~Resolved(x.gl, fn)
         THEN [x EXCEPT !.panic = Panic("fn not loaded")]
         ELSE [x EXCEPT !.dev = GlServer(x.dev, cmd.k, Operands(cmd, x.locals)),
                        !.ops = Append(@, op)]

Query == Cmd("query", NoArgs, NoArgs)

\* A step that is no device call.
Note(x, op) == IF Stopped(x) THEN x ELSE [x EXCEPT !.ops = Append(@, op)]

Abort(x, message) == IF Stopped(x) THEN x ELSE [x EXCEPT !.panic = Panic(message)]

\* `return value` / the Err arm of `?`
Return(x, value) == IF Stopped(x) THEN x ELSE [x EXCEPT !.ret = value]

\* `let name = value`
Let(x, name, value) ==
    IF Stopped(x) THEN x ELSE [x EXCEPT !.locals = (name :> value) @@ @]

\* `let name = call?`: an Ok value is bound, an Err keeps travelling out.
Try(x, name) ==
    IF Panicked(x) \/ x.ret.kind # "Ok" THEN x
    ELSE [x EXCEPT !.locals = (name :> x.ret.value) @@ @, !.ret = None]

\* `let name = gl.create_*()`: a fresh object bound to `name`, or nothing
\* when the device could not create it.
GlCreate(x, fn, op, kind, ok, name) ==
    IF Stopped(x) THEN x
    ELSE IF ~Resolved(x.gl, fn)
         THEN [x EXCEPT !.panic = Panic("fn not loaded")]
         ELSE [x EXCEPT !.dev = GlServer(x.dev, "create", [kind |-> kind, ok |-> ok]),
                        !.ops = Append(@, op),
                        !.locals = (name :> IF ok THEN NewObject(x.dev, kind)
                                            ELSE NoObject) @@ @]

\* ------------------------------------------------ statements and their run
\* A function body is the sequence of its statements; Run executes them in
\* order on an Exec state and stops at a panic or at a `return`.
Gl(fn, op, cmd) == [i |-> "gl", fn |-> fn, op |-> op, cmd |-> cmd]

Create(fn, op, kind, ok, name) ==
    [i |-> "create", fn |-> fn, op |-> op, kind |-> kind, ok |-> ok, name |-> name]

Do(op) == [i |-> "note", op |-> op]

Panics(message) == [i |-> "abort", message |-> message]

Returns(value) == [i |-> "return", value |-> value]

Assign(name, value) == [i |-> "let", name |-> name, value |-> value]

\* `body(..)` for a call whose value is not used, `let name = body(..)?`
\* for CallTry.
Call(body) == [i |-> "call", body |-> body]

CallTry(body, name) == [i |-> "call_try", body |-> body, name |-> name]

\* A statement that reads fields or locals: `what` names it.
Stmt(what, arg) == [i |-> what, arg |-> arg]

RECURSIVE Run(_, _, _)

\* ------------------------------------------------------------------- Init
Init ==
    /\ pc = "EventLoop_new"
    /\ result = Running
    /\ exitCode = -1
    /\ window = [exists |-> FALSE, size |-> <<0, 0>>]
    /\ context = [state |-> "none", destroys |-> 0]
    /\ surface = [state |-> "none", size |-> <<0, 0>>, swapInterval |-> 0, destroys |-> 0]
    /\ gl = "unbuilt"
    /\ dev = DevInit
    /\ mesh = None
    /\ shader = None
    /\ projection = None
    /\ view = None
    /\ model = None
    /\ start_time = 0
    /\ loop = [entered |-> FALSE, exit |-> FALSE, redraw |-> FALSE]
    /\ now = 0
    /\ ops = <<>>
    /\ last = [ev |-> None, afterExit |-> FALSE, presentOk |-> TRUE, handled |-> FALSE]

\* `?` and a panic both leave main(): main() is left with the value.
Raise(r) == pc' = "return" /\ result' = r

Goto(p) == pc' = p /\ result' = result

WindowCreation == TemplateError("WindowCreation", "backend message")

\* ------------------------------------------------------ main.rs: startup
\* main.rs:30 EventLoop::new().unwrap()
EventLoopNew ==
    /\ pc = "EventLoop_new"
    /\ \E ok \in BOOLEAN :
          IF ok THEN Goto("create_window_and_config")
                ELSE Raise(Panic("called unwrap on an Err value"))
    /\ ops' = <<>>
    /\ UNCHANGED <<exitCode, window, context, surface, gl, dev, mesh, shader,
                   projection, view, model, start_time, loop, now, last>>

\* window.rs:43-66. The inner size is a LogicalSize; the display's scale
\* factor is taken to be 1, so the framebuffer has width by height pixels.
create_window_and_config(width, height) ==
    /\ pc = "create_window_and_config"
    /\ \E outcome \in {"ok", "err", "none"} :
          CASE outcome = "ok" ->
                 /\ window' = [exists |-> TRUE, size |-> <<width, height>>]
                 /\ Goto("create_context")
            [] outcome = "err" ->
                 /\ window' = window
                 /\ Raise(WindowCreation)
            [] OTHER ->
                 \* configs.next().unwrap() / window.unwrap() on None
                 /\ window' = window
                 /\ Raise(Panic("called unwrap on a None value"))
    /\ ops' = <<>>
    /\ UNCHANGED <<exitCode, context, surface, gl, dev, mesh, shader,
                   projection, view, model, start_time, loop, now, last>>

\* window.rs:68-83
create_context ==
    /\ pc = "create_context"
    /\ \E ok \in BOOLEAN :
          IF ok
          THEN /\ context' = [context EXCEPT !.state = "not_current"]
               /\ Goto("create_surface")
          ELSE /\ context' = context
               /\ Raise(WindowCreation)
    /\ ops' = <<>>
    /\ UNCHANGED <<exitCode, window, surface, gl, dev, mesh, shader,
                   projection, view, model, start_time, loop, now, last>>

\* window.rs:85-102: the surface is built with the width and height given to
\* Window::new; NonZeroU32::new(_).unwrap() panics on a zero dimension.
create_surface(width, height) ==
    /\ pc = "create_surface"
    /\ \E ok \in BOOLEAN :
          IF width = 0 \/ height = 0
          THEN /\ surface' = surface
               /\ Raise(Panic("called unwrap on a None value"))
          ELSE IF ok
          THEN /\ surface' = [surface EXCEPT !.state = "live", !.size = <<width, height>>]
               /\ Goto("make_context_current")
          ELSE /\ surface' = surface
               /\ Raise(WindowCreation)
    /\ ops' = <<>>
    /\ UNCHANGED <<exitCode, window, context, gl, dev, mesh, shader,
                   projection, view, model, start_time, loop, now, last>>

\* Window::new without line 37: the context is created but never made
\* current.
make_context_current_skipped ==
    /\ pc = "make_context_current"
    /\ Goto("configure_surface")
    /\ ops' = <<>>
    /\ UNCHANGED <<exitCode, window, context, surface, gl, dev, mesh, shader,
                   projection, view, model, start_time, loop, now, last>>

\* window.rs:104-110. A context made current for the first time gets the
\* surface's rectangle as its viewport.
make_context_current ==
    /\ pc = "make_context_current"
    /\ \E ok \in BOOLEAN :
          IF ok
          THEN /\ context' = [context EXCEPT !.state = "current"]
               /\ dev' = [dev EXCEPT !.viewport = <<0, 0, surface.size[1], surface.size[2]>>]
               /\ Goto("configure_surface")
          ELSE /\ context' = context
               /\ dev' = dev
               /\ Raise(WindowCreation)
    /\ ops' = <<>>
    /\ UNCHANGED <<exitCode, window, surface, gl, mesh, shader,
                   projection, view, model, start_time, loop, now, last>>

\* window.rs:112-118: SwapInterval::Wait(1)
configure_surface ==
    /\ pc = "configure_surface"
    /\ \E ok \in BOOLEAN :
          IF ok
          THEN /\ surface' = [surface EXCEPT !.swapInterval = 1]
               /\ Goto("GlContextBuilder_build")
          ELSE /\ surface' = surface
               /\ Raise(WindowCreation)
    /\ ops' = <<"set_swap_interval">>
    /\ UNCHANGED <<exitCode, window, context, gl, dev, mesh, shader,
                   projection, view, model, start_time, loop, now, last>>

\* context.rs:34-44: from_loader_function resolves every entry point through
\* window.get_proc_address and reads GL_VERSION through glGetString; build
\* has no error path and returns Ok whatever the loader resolved.
GlContextBuilder_build ==
    /\ pc = "GlContextBuilder_build"
    /\ \E level \in GlLevels :
          IF ~Resolved(level, "glGetString")
          THEN /\ gl' = gl
               /\ Raise(Panic("fn not loaded"))
          ELSE /\ gl' = level
               /\ Goto("configure_gl_state")
    /\ ops' = (IF gl' = gl THEN <<>> ELSE <<"glGetString">>)
    /\ UNCHANGED <<exitCode, window, context, surface, dev, mesh, shader,
                   projection, view, model, start_time, loop, now, last>>

\* renderer.rs:40-46
ConfigureGlState ==
    << Gl("glEnable", "enable(DEPTH_TEST)", Cmd("enable", [cap |-> "DEPTH_TEST"], NoArgs)),
       Gl("glEnable", "enable(CULL_FACE)", Cmd("enable", [cap |-> "CULL_FACE"], NoArgs)),
       Gl("glCullFace", "cull_face(BACK)", Cmd("cull_face", [mode |-> "BACK"], NoArgs)),
       Gl("glClearColor", "clear_color",
          Cmd("clear_color", [color |-> ClearColorTenths], NoArgs)) >>

configure_gl_state ==
    /\ pc = "configure_gl_state"
    /\ \E x \in {Run(Exec(gl, dev, FALSE, NoLocals), ConfigureGlState, 1)} :
          /\ dev' = x.dev
          /\ ops' = x.ops
          /\ IF Panicked(x) THEN Raise(x.panic) ELSE Goto("Mesh_new")
    /\ UNCHANGED <<exitCode, window, context, surface, gl, mesh, shader,
                   projection, view, model, start_time, loop, now, last>>

\* ---------------------------------------------------------------- mesh.rs
\* A vertex count that rounds up: a trailing partial vertex is counted.
calculate_vertex_count_ceil(len) ==
    AsI32((len + FloatsPerVertex - 1) \div FloatsPerVertex)

\* mesh.rs:100-102
calculate_vertex_count(len) == AsI32(len \div FloatsPerVertex)

\* mesh.rs:66-70: the Mesh value built from the locals vao and vbo.
MeshValue(x, len) ==
    Return(x, [kind |-> "Mesh", vao |-> x.locals.vao, vbo |-> x.locals.vbo,
               vertex_count |-> calculate_vertex_count(len)])

\* mesh.rs:33-72, Mesh::new(gl, vertices) for a slice of `len` floats.
\* vaoOk and vboOk say whether the device could create the two objects;
\* create_vertex_array() and create_buffer() are unwrapped.
MeshNew(len, vaoOk, vboOk) ==
    << Create("glGenVertexArrays", "create_vertex_array", "vertex_array", vaoOk, "vao"),
       IF vaoOk THEN Do("unwrap") ELSE Panics("called unwrap on an Err value"),
       Create("glGenBuffers", "create_buffer", "buffer", vboOk, "vbo"),
       IF vboOk THEN Do("unwrap") ELSE Panics("called unwrap on an Err value"),
       Gl("glBindVertexArray", "bind_vertex_array(vao)",
          Cmd("bind_vertex_array", NoArgs, [vao |-> "vao"])),
       Gl("glBindBuffer", "bind_buffer(vbo)",
          Cmd("bind_buffer", NoArgs, [buffer |-> "vbo"])),
       Gl("glBufferData", "buffer_data_u8_slice",
          Cmd("buffer_data", [len |-> len], NoArgs)),
       Gl("glEnableVertexAttribArray", "enable_vertex_attrib_array(0)",
          Cmd("enable_vertex_attrib_array", [index |-> 0], NoArgs)),
       Gl("glVertexAttribPointer", "vertex_attrib_pointer_f32(0)",
          Cmd("vertex_attrib_pointer",
              [index |-> 0, size |-> 3, stride |-> 24, offset |-> 0], NoArgs)),
       Gl("glEnableVertexAttribArray", "enable_vertex_attrib_array(1)",
          Cmd("enable_vertex_attrib_array", [index |-> 1], NoArgs)),
       Gl("glVertexAttribPointer", "vertex_attrib_pointer_f32(1)",
          Cmd("vertex_attrib_pointer",
              [index |-> 1, size |-> 3, stride |-> 24, offset |-> 12], NoArgs)),
       Gl("glBindVertexArray", "bind_vertex_array(None)",
          Cmd("bind_vertex_array", [vao |-> NoObject], NoArgs)),
       Stmt("Mesh", len) >>

\* Mesh::draw without line 89: the vertex array stays bound after the draw.
MeshDraw_left_bound(m) ==
    << Gl("glBindVertexArray", "bind_vertex_array(vao)",
          Cmd("bind_vertex_array", [vao |-> m.vao], NoArgs)),
       Gl("glDrawArrays", "draw_arrays",
          Cmd("draw_arrays", [mode |-> "TRIANGLES", first |-> 0, count |-> m.vertex_count],
              NoArgs)) >>

\* mesh.rs:78-91, Mesh::draw
MeshDraw(m) ==
    << Gl("glBindVertexArray", "bind_vertex_array(vao)",
          Cmd("bind_vertex_array", [vao |-> m.vao], NoArgs)),
       Gl("glDrawArrays", "draw_arrays",
          Cmd("draw_arrays", [mode |-> "TRIANGLES", first |-> 0, count |-> m.vertex_count],
              NoArgs)),
       Gl("glBindVertexArray", "bind_vertex_array(None)",
          Cmd("bind_vertex_array", [vao |-> NoObject], NoArgs)) >>

\* main.rs:35, Mesh::new(gl, &vertices) for a vertex array of `len` floats.
Mesh_new_of(len) ==
    /\ pc = "Mesh_new"
    /\ \E vaoOk \in BOOLEAN, vboOk \in BOOLEAN :
          \E x \in {Run(Exec(gl, dev, FALSE, NoLocals),
                        MeshNew(len, vaoOk, vboOk), 1)} :
             /\ dev' = x.dev
             /\ ops' = x.ops
             /\ IF Panicked(x)
                THEN mesh' = mesh /\ Raise(x.panic)
                ELSE mesh' = x.ret /\ Goto("Shader_new")
    /\ UNCHANGED <<exitCode, window, context, surface, gl, shader,
                   projection, view, model, start_time, loop, now, last>>

\* main.rs:33-35: the vertices are the cube's.
Mesh_new == Mesh_new_of(CubeFloats)

\* -------------------------------------------------------------- shader.rs
\* What the environment answers during one Shader::new: whether each file
\* could be read, whether the device could create each object, the compile
\* and link status ("ok", or the info log of the failure), and the active
\* uniforms of the program the sources link to.
ShaderEnvs ==
    [readV : BOOLEAN, readF : BOOLEAN,
     createV : BOOLEAN, createF : BOOLEAN, createP : BOOLEAN,
     compileV : {"ok"} \cup Logs, compileF : {"ok"} \cup Logs,
     link : {"ok"} \cup Logs,
     active : SUBSET {UniformNames[i] : i \in 1..Len(UniformNames)}]

\* Ok(shader), Ok(program)
OkLocal(x, name) == Return(x, Ok(x.locals[name]))

\* shader.rs:50-65, Shader::compile_shader(gl, shader_type, source)
compile_shader(shader_type, createOk, status) ==
    << Create("glCreateShader", "create_shader", shader_type, createOk, "shader"),
       IF createOk THEN Do("?")
       ELSE Returns(TemplateError("ShaderCompilation", "Unable to create shader object")),
       Gl("glShaderSource", "shader_source", Query),
       Gl("glCompileShader", "compile_shader", Query),
       Gl("glGetShaderiv", "get_shader_compile_status", Query) >>
    \o (IF status = "ok" THEN <<>>
        ELSE << Gl("glGetShaderInfoLog", "get_shader_info_log", Query),
                Returns(TemplateError("ShaderCompilation", status)) >>)
    \o << Stmt("Ok", "shader") >>

\* shader.rs:67-86, Shader::link_program(gl, vertex_shader, fragment_shader);
\* the two arguments are the caller's locals of the same names.
link_program(createOk, status, active) ==
    << Create("glCreateProgram", "create_program", "program", createOk, "program"),
       IF createOk THEN Do("?")
       ELSE Returns(TemplateError("ShaderCompilation", "Unable to create program object")),
       Gl("glAttachShader", "attach_shader(vertex)",
          Cmd("attach_shader", NoArgs, [program |-> "program", shader |-> "vertex_shader"])),
       Gl("glAttachShader", "attach_shader(fragment)",
          Cmd("attach_shader", NoArgs, [program |-> "program", shader |-> "fragment_shader"])),
       Gl("glLinkProgram", "link_program",
          Cmd("link_program", [status |-> status, active |-> active],
              [program |-> "program"])),
       Gl("glGetProgramiv", "get_program_link_status", Query) >>
    \o (IF status = "ok" THEN <<>>
        ELSE << Gl("glGetProgramInfoLog", "get_program_info_log", Query),
                Returns(TemplateError("ShaderCompilation", status)) >>)
    \o << Gl("glDeleteShader", "delete_shader(vertex)",
             Cmd("delete_shader", NoArgs, [shader |-> "vertex_shader"])),
          Gl("glDeleteShader", "delete_shader(fragment)",
             Cmd("delete_shader", NoArgs, [shader |-> "fragment_shader"])),
          Stmt("Ok", "program") >>

\* shader.rs:44-47: Ok(Self { program, uniforms: HashMap::new() })
ShaderValue(x) ==
    Return(x, Ok([kind |-> "Shader", program |-> x.locals.program, uniforms |-> <<>>]))

\* shader.rs:31-48, Shader::new(gl, vertex_path, fragment_path)
ShaderNew(env) ==
    << IF env.readV THEN Do("read_to_string") ELSE Returns(TemplateError("Io", "os error")),
       IF env.readF THEN Do("read_to_string") ELSE Returns(TemplateError("Io", "os error")),
       CallTry(compile_shader("vertex_shader", env.createV, env.compileV), "vertex_shader"),
       CallTry(compile_shader("fragment_shader", env.createF, env.compileF),
               "fragment_shader"),
       CallTry(link_program(env.createP, env.link, env.active), "program"),
       Stmt("Shader", "program") >>

\* main.rs:36
Shader_new ==
    /\ pc = "Shader_new"
    /\ \E env \in ShaderEnvs :
          \E x \in {Run(Exec(gl, dev, FALSE, NoLocals), ShaderNew(env), 1)} :
             /\ dev' = x.dev
             /\ ops' = x.ops
             /\ IF Panicked(x)
                THEN shader' = shader /\ Raise(x.panic)
                ELSE IF x.ret.kind = "Err"
                THEN shader' = shader /\ Raise(x.ret)
                ELSE shader' = x.ret.value /\ Goto("init_scene")
    /\ UNCHANGED <<exitCode, window, context, surface, gl, mesh,
                   projection, view, model, start_time, loop, now, last>>

\* shader.rs:88-93, Shader::bind; `self` is the local `shader`.
ShaderBind ==
    << Stmt("self.program", "shader"),
       Gl("glUseProgram", "use_program", Cmd("use_program", NoArgs, [program |-> "program"])) >>

\* get_uniform_location without the cache: the device is asked on every call.
get_uniform_location_uncached(x, name) ==
    IF ~Resolved(x.gl, "glGetUniformLocation")
    THEN [x EXCEPT !.panic = Panic("fn not loaded")]
    ELSE IF GlGetUniformLocation(x.dev, name).kind = "None"
    THEN [x EXCEPT !.ops = Append(@, "get_uniform_location"),
                   !.panic = Panic("called unwrap on a None value")]
    ELSE [x EXCEPT !.ops = Append(@, "get_uniform_location"),
                   !.locals =
                       ("location" :> GlGetUniformLocation(x.dev, name).value)
                       @@ [@ EXCEPT !.shader.uniforms =
                              (name :> GlGetUniformLocation(x.dev, name).value) @@ @]]

\* shader.rs:103-107, Shader::get_uniform_location: the cached location, or
\* the device's answer, unwrapped, inserted under the name and returned (into
\* the local `location`). `self` is the local `shader`.
get_uniform_location(x, name) ==
    IF name \in DOMAIN x.locals.shader.uniforms
    THEN Let(x, "location", x.locals.shader.uniforms[name])
    ELSE IF ~Resolved(x.gl, "glGetUniformLocation")
    THEN [x EXCEPT !.panic = Panic("fn not loaded")]
    ELSE IF GlGetUniformLocation(x.dev, name).kind = "None"
    THEN [x EXCEPT !.ops = Append(@, "get_uniform_location"),
                   !.panic = Panic("called unwrap on a None value")]
    ELSE [x EXCEPT !.ops = Append(@, "get_uniform_location"),
                   !.locals =
                       ("location" :> GlGetUniformLocation(x.dev, name).value)
                       @@ [@ EXCEPT !.shader.uniforms =
                              (name :> GlGetUniformLocation(x.dev, name).value) @@ @]]

\* shader.rs:95-101, Shader::set_matrix4(name, matrix), the matrix being the
\* value of the local `matrix`: it goes to the location in the program in use.
\* The upload is recorded in ops under the uniform's name.
set_matrix4(name, matrix) ==
    << Stmt("get_uniform_location", name),
       Gl("glUniformMatrix4fv", name,
          Cmd("uniform_matrix_4", NoArgs, [matrix |-> matrix, location |-> "location"])) >>

\* ------------------------------------------------- renderer.rs, window.rs
\* renderer.rs:54-58, Renderer::clear
RendererClear == << Gl("glClear", "clear", Cmd("clear", NoArgs, NoArgs)) >>

\* renderer.rs:70-75, Renderer::resize
RendererResize(width, height) ==
    << Gl("glViewport", "viewport",
          Cmd("viewport", [x |-> 0, y |-> 0, width |-> AsI32(width),
                           height |-> AsI32(height)], NoArgs)) >>

\* swap_buffers without line 124: a successful swap requests no redraw.
swap_buffers_no_request(x, swapOk) ==
    IF ~swapOk
    THEN [x EXCEPT !.ops = Append(@, "swap_buffers"),
                   !.locals = ("presented" :> TemplateError("OpenGL", "backend message")) @@ @]
    ELSE [x EXCEPT !.dev.presented = x.dev.framebuffer,
                   !.dev.framebuffer = [state |-> "undefined"],
                   !.ops = @ \o <<"swap_buffers">>,
                   !.locals = ("presented" :> Ok("unit")) @@ @]

\* window.rs:121-126, Window::swap_buffers: a backend failure returns
\* Err(OpenGL) before request_redraw; a successful swap shows the frame,
\* leaves the back buffer undefined and requests the next redraw. The result is bound to the local `presented`.
swap_buffers(x, swapOk) ==
    IF ~swapOk
    THEN [x EXCEPT !.ops = Append(@, "swap_buffers"),
                   !.locals = ("presented" :> TemplateError("OpenGL", "backend message")) @@ @]
    ELSE [x EXCEPT !.dev.presented = x.dev.framebuffer,
                   !.dev.framebuffer = [state |-> "undefined"],
                   !.redraw = TRUE,
                   !.ops = @ \o <<"swap_buffers", "request_redraw">>,
                   !.locals = ("presented" :> Ok("unit")) @@ @]

\* renderer.rs:61-63, Renderer::present
RendererPresent(swapOk) == << Stmt("swap_buffers", swapOk) >>

\* ------------------------------------------------------------------ app.rs
\* renderer.present().unwrap() in the place of lines 95-97.
LogPresentError_unwrap(x) ==
    IF x.locals.presented.kind = "Err"
    THEN Abort(x, "called unwrap on an Err value")
    ELSE x

\* app.rs:95-97: if let Err(e) = renderer.present() { tracing::error!(..) }
LogPresentError(x) ==
    IF x.locals.presented.kind = "Err" THEN Note(x, "tracing::error") ELSE x

\* render_frame with the draw moved in front of the bind and the uploads.
render_frame_draw_first(m, v, swapOk) ==
    << Call(RendererClear),
       Call(MeshDraw(m)),
       Call(ShaderBind),
       Call(set_matrix4("projection", "projection")),
       Assign("view", v),
       Call(set_matrix4("view", "view")),
       Call(set_matrix4("model", "model")),
       Call(RendererPresent(swapOk)),
       Stmt("if let Err", "presented") >>

\* app.rs:78-98, render_frame(renderer, shader, mesh, projection, view,
\* model); projection, model and shader are the handler's locals of those
\* names, m and v the mesh and the view matrix.
render_frame(m, v, swapOk) ==
    << Call(RendererClear),
       Call(ShaderBind),
       Call(set_matrix4("projection", "projection")),
       Assign("view", v),
       Call(set_matrix4("view", "view")),
       Call(set_matrix4("model", "model")),
       Call(MeshDraw(m)),
       Call(RendererPresent(swapOk)),
       Stmt("if let Err", "presented") >>

\* app.rs:73-74: a panic of Perspective3::new leaves *projection as it was.
AssignProjection(x, made) ==
    IF made.kind = "Panic" THEN Abort(x, made.message) ELSE Let(x, "projection", made.value)

\* handle_resize without lines 73-74: the viewport follows the event, the
\* projection keeps its aspect.
handle_resize_stale_projection(width, height) ==
    << Call(RendererResize(width, height)) >>

\* app.rs:65-75, handle_resize
handle_resize(width, height) ==
    << Call(RendererResize(width, height)),
       Stmt("Perspective3::new",
            Perspective3New(F32Div(width, height), FovyDegrees, ZNear, ZFar)) >>

\* One statement, other than a call, on the state x.
Step(x, s) ==
    CASE s.i = "gl" -> GlCall(x, s.fn, s.op, s.cmd)
      [] s.i = "create" -> GlCreate(x, s.fn, s.op, s.kind, s.ok, s.name)
      [] s.i = "note" -> Note(x, s.op)
      [] s.i = "abort" -> Abort(x, s.message)
      [] s.i = "return" -> Return(x, s.value)
      [] s.i = "let" -> Let(x, s.name, s.value)
      [] s.i = "Mesh" -> MeshValue(x, s.arg)
      [] s.i = "Ok" -> OkLocal(x, s.arg)
      [] s.i = "Shader" -> ShaderValue(x)
      [] s.i = "self.program" -> Let(x, "program", x.locals[s.arg].program)
      [] s.i = "get_uniform_location" -> get_uniform_location(x, s.arg)
      [] s.i = "swap_buffers" -> swap_buffers(x, s.arg)
      [] s.i = "if let Err" -> LogPresentError(x)
      [] s.i = "Perspective3::new" -> AssignProjection(x, s.arg)

\* The statements body[i..] in order, from the state `from`; nothing runs
\* after a panic or a return. A call runs the callee's body on the same
\* state. Every intermediate state is a value (x, y) before it is used.
Run(from, body, i) ==
    CHOOSE end \in
        { IF i > Len(body) \/ Stopped(x)
          THEN x
          ELSE Run(CASE body[i].i = "call" -> Run(x, body[i].body, 1)
                     [] body[i].i = "call_try" ->
                          CHOOSE r \in {Try(y, body[i].name) :
                                          y \in {Run(x, body[i].body, 1)}} : TRUE
                     [] OTHER -> Step(x, body[i]),
                   body, i + 1) : x \in {from} } : TRUE

Event(kind, width, height) == [kind |-> kind, width |-> width, height |-> height]

\* WindowEvent values the event source delivers; "Focused" stands for every
\* kind the handler ignores.
Events ==
    {Event(k, 0, 0) : k \in {"CloseRequested", "RedrawRequested", "Focused"}}
    \cup {Event("Resized", w, h) : w \in 0..MaxDim, h \in 0..MaxDim}

\* The fields of TemplateApp and of the loop that window_event works on.
HandlerState ==
    Exec(gl, dev, loop.redraw,
         [shader |-> shader, projection |-> projection, model |-> model,
          exit |-> loop.exit, presented |-> Ok("unit")])

\* A match whose catch-all arm draws a frame.
WindowEventBody_other_draws(event, swapOk) ==
    CASE event.kind = "CloseRequested" ->
           << Do("event_loop.exit"), Assign("exit", TRUE) >>
      [] event.kind = "Resized" ->
           << Call(handle_resize(event.width, event.height)) >>
      [] event.kind = "RedrawRequested" ->
           << Do("self.model"),
              Assign("model", ModelMatrix(now - start_time)),
              Call(render_frame(mesh, view, swapOk)) >>
      [] OTHER -> << Call(render_frame(mesh, view, swapOk)) >>

\* app.rs:36-52, the match of window_event. swapOk is the backend's answer to
\* this frame's swap.
WindowEventBody(event, swapOk) ==
    CASE event.kind = "CloseRequested" ->
           << Do("event_loop.exit"), Assign("exit", TRUE) >>
      [] event.kind = "Resized" ->
           << Call(handle_resize(event.width, event.height)) >>
      [] event.kind = "RedrawRequested" ->
           << Do("self.model"),
              Assign("model", ModelMatrix(now - start_time)),
              Call(render_frame(mesh, view, swapOk)) >>
      [] OTHER -> <<>>

\* app.rs:30-53, TemplateApp::window_event, for an event the loop delivers
\* while run_app is executing. The handler keeps no state of its own about
\* termination: it runs for whatever the loop delivers. Delivering Resized
\* means the window's framebuffer has that size; delivering RedrawRequested
\* consumes the pending redraw request.
window_event(event) ==
    /\ pc = "loop"
    /\ \E swapOk \in BOOLEAN :
          \E x \in {Run(IF event.kind = "RedrawRequested"
                        THEN [HandlerState EXCEPT !.redraw = FALSE]
                        ELSE HandlerState,
                        WindowEventBody(event, swapOk), 1)} :
             /\ dev' = x.dev
             /\ ops' = x.ops
             /\ projection' = x.locals.projection
             /\ model' = x.locals.model
             /\ shader' = x.locals.shader
             /\ loop' = [loop EXCEPT !.exit = x.locals.exit, !.redraw = x.redraw]
             /\ last' = [ev |-> event, afterExit |-> loop.exit,
                         presentOk |-> x.locals.presented.kind = "Ok",
                         handled |-> ~Panicked(x)]
             /\ IF Panicked(x) THEN Raise(x.panic) ELSE Goto("loop")
    /\ window' = IF event.kind = "Resized"
                 THEN [window EXCEPT !.size = <<event.width, event.height>>]
                 ELSE window
    /\ UNCHANGED <<exitCode, context, surface, gl, mesh, view, start_time, now>>

\* app.rs:55-57, TemplateApp::about_to_wait: the idle tick at the end of a
\* loop iteration.
about_to_wait ==
    /\ pc = "loop"
    /\ loop' = [loop EXCEPT !.redraw = TRUE]
    /\ ops' = <<"request_redraw">>
    /\ last' = [ev |-> Event("AboutToWait", 0, 0), afterExit |-> loop.exit,
                presentOk |-> TRUE, handled |-> TRUE]
    /\ UNCHANGED <<pc, result, exitCode, window, context, surface, gl, dev, mesh,
                   shader, projection, view, model, start_time, now>>

\* main.rs:38-44 and 105-123: the camera state, the animation clock, the
\* TemplateApp value, and the entry into run_app.
init_scene ==
    /\ pc = "init_scene"
    /\ LET made == Perspective3New(F32Div(InitWidth, InitHeight), FovyDegrees, ZNear, ZFar)
       IN IF made.kind = "Panic"
          THEN /\ Raise(made)
               /\ UNCHANGED <<projection, view, model, start_time, loop>>
          ELSE /\ projection' = made.value
               /\ view' = create_view_matrix
               /\ model' = Identity
               /\ start_time' = now
               /\ loop' = [loop EXCEPT !.entered = TRUE]
               /\ Goto("loop")
    /\ ops' = <<>>
    /\ UNCHANGED <<exitCode, window, context, surface, gl, dev, mesh, shader, now, last>>

\* A loop that returns only when no redraw request is pending.
run_app_returns_after_redraw ==
    /\ pc = "loop"
    /\ loop.exit
    /\ ~loop.redraw
    /\ Raise(Ok("unit"))
    /\ ops' = <<>>
    /\ UNCHANGED <<exitCode, window, context, surface, gl, dev, mesh, shader,
                   projection, view, model, start_time, loop, now, last>>

\* main.rs:125-128: run_app returns once exit() was called and the current
\* iteration is over; run_event_loop returns Ok(()).
run_app_returns ==
    /\ pc = "loop"
    /\ loop.exit
    /\ Raise(Ok("unit"))
    /\ ops' = <<>>
    /\ UNCHANGED <<exitCode, window, context, surface, gl, dev, mesh, shader,
                   projection, view, model, start_time, loop, now, last>>

\* What dropping the values main() owns does when main() returns or unwinds.
\* Window owns the window handle, the context and the surface, and their
\* types release them on drop; Mesh and Shader implement no Drop and their
\* fields are plain object names, so dropping them issues no device call.
DropContext(c) ==
    IF c.state \in {"not_current", "current"}
    THEN [c EXCEPT !.state = "destroyed", !.destroys = @ + 1]
    ELSE c

DropSurface(s) ==
    IF s.state = "live"
    THEN [s EXCEPT !.state = "destroyed", !.destroys = @ + 1]
    ELSE s

DropMesh(d, m) == d

DropShader(d, sh) == d

\* An exit status that ignores what main returned.
ExitCodeOf_success(r) == 0

\* Termination::report of main's TemplateResult<()>, or the panic status.
ExitCodeOf(r) ==
    CASE r.kind = "Ok" -> 0
      [] r.kind = "Err" -> 1
      [] OTHER -> 101

\* main() returns (or unwinds): its locals are dropped and the process ends.
main_returns ==
    /\ pc = "return"
    /\ pc' = "exited"
    /\ exitCode' = ExitCodeOf(result)
    /\ dev' = DropShader(DropMesh(dev, mesh), shader)
    /\ context' = DropContext(context)
    /\ surface' = DropSurface(surface)
    /\ window' = [window EXCEPT !.exists = FALSE]
    /\ ops' = <<>>
    /\ UNCHANGED <<result, gl, mesh, shader, projection, view, model, start_time,
                   loop, now, last>>

\* Instant is monotonic: time passes while the scene is set up and while the
\* loop runs.
Tick ==
    /\ pc \in {"init_scene", "loop"}
    /\ now < MaxTime
    /\ now' = now + 1
    /\ UNCHANGED <<pc, result, exitCode, window, context, surface, gl, dev, mesh,
                   shader, projection, view, model, start_time, loop, ops, last>>

Startup ==
    \/ EventLoopNew
    \/ create_window_and_config(InitWidth, InitHeight)
    \/ create_context
    \/ create_surface(InitWidth, InitHeight)
    \/ make_context_current
    \/ configure_surface
    \/ GlContextBuilder_build
    \/ configure_gl_state
    \/ Mesh_new
    \/ Shader_new
    \/ init_scene

Next ==
    \/ EventLoopNew
    \/ create_window_and_config(InitWidth, InitHeight)
    \/ create_context
    \/ create_surface(InitWidth, InitHeight)
    \/ make_context_current
    \/ configure_surface
    \/ GlContextBuilder_build
    \/ configure_gl_state
    \/ Mesh_new
    \/ Shader_new
    \/ init_scene
    \/ \E event \in Events : window_event(event)
    \/ about_to_wait
    \/ run_app_returns
    \/ main_returns
    \/ Tick

Spec == Init /\ [][Next]_vars

\* The program with nothing assumed of the event source, not even that a
\* requested redraw is ever delivered or that the idle tick is reached: only
\* that run_app returns once it can, and that main then returns.
ExitSpec == Spec /\ WF_vars(run_app_returns) /\ WF_vars(main_returns)

\* Lengths of the vertex arrays Mesh::new is applied to.
MaxLen == 13

VertexLens == 0..MaxLen \cup {CubeFloats}

\* The program run on a vertex array of any of these lengths in the place of
\* the cube's: startup, frames, close and return.
MeshNext ==
    \/ EventLoopNew
    \/ create_window_and_config(InitWidth, InitHeight)
    \/ create_context
    \/ create_surface(InitWidth, InitHeight)
    \/ make_context_current
    \/ configure_surface
    \/ GlContextBuilder_build
    \/ configure_gl_state
    \/ \E len \in VertexLens : Mesh_new_of(len)
    \/ Shader_new
    \/ init_scene
    \/ window_event(Event("RedrawRequested", 0, 0))
    \/ window_event(Event("CloseRequested", 0, 0))
    \/ run_app_returns
    \/ main_returns

MeshSpec == Init /\ [][MeshNext]_vars

\* The program is a single running thread: a construction step that can run
\* does run, the loop reaches its idle tick, delivers a requested redraw,
\* returns once exit was requested, and main returns. Nothing is assumed of
\* the events the window system sends.
FairSpec ==
    /\ Spec
    /\ WF_vars(Startup)
    /\ WF_vars(about_to_wait)
    /\ WF_vars(loop.redraw /\ window_event(Event("RedrawRequested", 0, 0)))
    /\ WF_vars(run_app_returns)
    /\ WF_vars(main_returns)

\* ============================================================ properties
Contains(seq, op) == \E i \in 1..Len(seq) : seq[i] = op

Occurrences(seq, o) == Cardinality({i \in 1..Len(seq) : seq[i] = o})

\* The step just taken was the handler (or the idle tick) for an event of
\* this kind: ops still holds the calls of that step.
Handled(kind) == last.ev.kind = kind /\ last.handled

\* C1: once the handler has processed CloseRequested the loop is terminal:
\* no event (RedrawRequested, Resized, idle tick or any other) is handled by
\* the application after exit() was called.
C1_NothingHandledAfterClose == ~(last.handled /\ last.afterExit)

\* C2: after the handler of Resized(w, h) with h > 0 has finished the
\* viewport is (0, 0, w, h) and the projection is (w/h, 45 degrees, 0.1,
\* 100.0); and whenever the loop runs with a viewport of positive height the
\* projection's aspect is viewport width / viewport height, from 800/600 on.
C2_ResizeSetsViewportAndAspect ==
    /\ (Handled("Resized") /\ last.ev.height > 0) =>
          /\ dev.viewport = <<0, 0, last.ev.width, last.ev.height>>
          /\ projection = [aspect |-> F32Div(last.ev.width, last.ev.height),
                           fovy |-> FovyDegrees, znear |-> ZNear, zfar |-> ZFar]
    /\ (pc = "loop" /\ dev.viewport[4] > 0) =>
          /\ projection.aspect = F32Div(dev.viewport[3], dev.viewport[4])
          /\ projection.fovy = FovyDegrees
          /\ projection.znear = ZNear
          /\ projection.zfar = ZFar

\* A Resized(1, 1) was handled: the aspect went from 4/3 to 1.
C2_Resized ==
    /\ pc = "loop"
    /\ Handled("Resized")
    /\ last.ev.width = MaxDim /\ last.ev.height = MaxDim
    /\ projection.aspect = F32Div(1, 1)
    /\ dev.viewport = <<0, 0, MaxDim, MaxDim>>

\* C3: after the handler of Resized(w, h) has run, the surface created at
\* startup has the size (w, h) of the window's framebuffer.
C3_SurfaceFollowsResize ==
    (Handled("Resized") /\ surface.state = "live") =>
        /\ surface.size = <<last.ev.width, last.ev.height>>
        /\ surface.size = window.size

\* The steps of one frame that C4 orders. An upload is recorded under the
\* name of its uniform.
FrameSteps ==
    <<"self.model", "clear", "use_program", "projection", "view", "model",
      "draw_arrays", "swap_buffers">>

IsFrameStep(op) == Contains(FrameSteps, op)

\* C4: every handled RedrawRequested issues, exactly once each and in this
\* order: the recomputation of the model matrix, clear, the bind of the
\* shader, the uploads of projection, view and model, the draw, the present.
C4_FrameOrder ==
    (pc = "loop" /\ Handled("RedrawRequested")) =>
        /\ SelectSeq(ops, IsFrameStep) = FrameSteps
        /\ dev.uniforms = (0 :> projection) @@ (1 :> view) @@ (2 :> model)

\* A frame was drawn and shown.
C4_FrameShown ==
    /\ pc = "loop"
    /\ Handled("RedrawRequested")
    /\ last.presentOk
    /\ dev.presented.state = "drawn"
    /\ Len(ops) >= Len(FrameSteps)

\* Steps recorded in ops that are no call to the device or its context.
HostSteps ==
    {"unwrap", "?", "read_to_string", "self.model", "event_loop.exit", "tracing::error"}

\* C5: startup is ordered context current, device handle built, mesh and
\* shader created, loop entered: no device call is issued unless the context
\* is current and the handle is built, and no event is handled before mesh
\* and shader both exist.
C5_StartupOrder ==
    /\ (\E i \in 1..Len(ops) : ops[i] \notin HostSteps) => context.state = "current"
    /\ (\E i \in 1..Len(ops) : ops[i] \notin HostSteps \cup {"set_swap_interval"}) =>
          gl # "unbuilt"
    /\ gl # "unbuilt" => context.state \in {"current", "destroyed"}
    /\ mesh.kind = "Mesh" => gl # "unbuilt"
    /\ shader.kind = "Shader" => mesh.kind = "Mesh"
    /\ (loop.entered \/ last.ev.kind # "None") =>
          mesh.kind = "Mesh" /\ shader.kind = "Shader"

\* The loop was entered after a full startup and a frame's calls went out.
C5_LoopAfterStartup ==
    /\ loop.entered
    /\ context.state = "current"
    /\ Contains(ops, "draw_arrays")
    /\ Cardinality(dev.created) = 5

\* The objects Mesh and Shader own.
Owned == {o \in dev.created : o.kind \in {"program", "vertex_array", "buffer"}}

\* C6: when the application has shut down after CloseRequested, the shader
\* program, the vertex array, the vertex buffer, the context and the surface
\* have each been destroyed exactly once.
C6_EverythingDestroyedOnce ==
    (pc = "exited" /\ loop.exit) =>
        /\ \A o \in Owned : Occurrences(dev.deletes, o) = 1 /\ o \notin dev.live
        /\ context.destroys = 1
        /\ surface.destroys = 1

\* The frame just handled could not be presented.
PresentFailed ==
    /\ last.ev.kind = "RedrawRequested"
    /\ ~last.presentOk
    /\ Contains(ops, "swap_buffers")

\* C7: a failed present is not fatal: the whole frame was issued, the error
\* is logged, the handler returns, the loop keeps running with its exit
\* request as it was, so that window_event still runs for every event.
C7_PresentFailureNotFatal ==
    PresentFailed =>
        /\ last.handled
        /\ pc = "loop"
        /\ result = Running
        /\ loop.exit = last.afterExit
        /\ SelectSeq(ops, IsFrameStep) = FrameSteps
        /\ ops[Len(ops)] = "tracing::error"

\* A present failed while the loop was running.
C7_FrameDropped == PresentFailed /\ ~loop.exit /\ pc = "loop"

\* C8: as long as CloseRequested has not been processed, a RedrawRequested is
\* eventually handled again.
C8_RedrawRecurs ==
    []((loop.entered /\ ~loop.exit /\ ~Handled("RedrawRequested"))
          => <>(Handled("RedrawRequested") \/ loop.exit))

\* A construction step has failed.
StartupFailed == result.kind \in {"Err", "Panic"} /\ ~loop.entered

\* C9: a failure of a construction step is fatal: nothing but main's return
\* follows it, no later step runs, the loop is not entered, no event is
\* handled, and the exit status is not zero.
C9_StartupFailureIsFatal ==
    /\ [](StartupFailed => pc \in {"return", "exited"} /\ last.ev.kind = "None")
    /\ [][StartupFailed =>
            /\ pc' = "exited"
            /\ exitCode' # 0
            /\ UNCHANGED <<result, gl, dev, mesh, shader, projection, view, model,
                           loop, last>>]_vars

\* Shader::new failed at a compile and the process ended with status 1.
C9_ShaderFailureExits ==
    /\ pc = "exited"
    /\ StartupFailed
    /\ result = TemplateError("ShaderCompilation", "log A")
    /\ mesh.kind = "Mesh"
    /\ exitCode = 1

\* The error a failed compile of the vertex stage returns.
CompileError(log) ==
    Run(Exec("full", DevInit, FALSE, NoLocals),
        compile_shader("vertex_shader", TRUE, log), 1).ret

\* C10: the error names the failing phase: a link failure has a kind that no
\* compile failure has, a compile failure carries its stage, and both carry
\* the backend's log.
C10_ErrorKindTellsPhase ==
    /\ (pc = "return" /\ Contains(ops, "get_program_info_log")) =>
          /\ result.payload \in Logs
          /\ \A log \in Logs : result.variant # CompileError(log).variant
    /\ (pc = "return" /\ Contains(ops, "get_shader_info_log")) =>
          /\ result.payload \in Logs
          /\ "stage" \in DOMAIN result

\* The vertex and fragment stage objects the device created.
Stages == {o \in dev.created : o.kind \in {"vertex_shader", "fragment_shader"}}

\* C11: after a successful Shader construction both stage objects have been
\* deleted exactly once and no stage object created by it still exists.
C11_StagesGoneAfterLink ==
    shader.kind = "Shader" =>
        \A o \in Stages : Occurrences(dev.deletes, o) = 1 /\ o \notin dev.live

\* Both delete calls are issued, once each, by the time construction returns.
C11_DeleteCalledOnce ==
    shader.kind = "Shader" => \A o \in Stages : Occurrences(dev.deletes, o) = 1

UniformNameSet == {UniformNames[i] : i \in 1..Len(UniformNames)}

\* The names the uniform cache holds.
Cached(sh) == IF sh.kind = "Shader" THEN DOMAIN sh.uniforms ELSE {}

\* What one step of the program does to the cache. ops' is the trace of the
\* step: a set_matrix4 call that returned left the uniform's name in it, a
\* lookup on the device left "get_uniform_location" in front of that name.
C12_CacheStep ==
    /\ \A n \in Cached(shader) :
          n \in Cached(shader') /\ shader'.uniforms[n] = shader.uniforms[n]
    /\ \A n \in Cached(shader') \ Cached(shader) :
          /\ Occurrences(ops', n) = 1
          /\ shader'.uniforms[n] = GlGetUniformLocation(dev, n).value
    /\ \A i \in 1..Len(ops') :
          /\ ops'[i] \in UniformNameSet =>
                /\ ops'[i] \in Cached(shader')
                /\ i > 1
                /\ (ops'[i-1] = "get_uniform_location") <=> (ops'[i] \notin Cached(shader))
          /\ ops'[i] = "get_uniform_location" =>
                IF i < Len(ops')
                THEN ops'[i+1] \in Cached(shader') \ Cached(shader)
                ELSE result'.kind = "Panic"

\* C12: the uniform cache is insert-if-absent and append-only. In every step
\* other than the passing of time, no entry is removed or overwritten, a
\* set_matrix4 call that returns with a name already cached asks the device
\* nothing and leaves the cache as it was, a call that returns with a new name
\* asks the device once and adds exactly that name's entry, and the device is
\* asked only for names that are not cached.
C12_CacheInsertIfAbsent == [][Tick \/ C12_CacheStep]_vars

\* A frame was drawn from a full cache: three uploads, no lookup.
C12_FrameFromCache ==
    /\ Handled("RedrawRequested")
    /\ Cached(shader) = UniformNameSet
    /\ \A n \in UniformNameSet : Contains(ops, n)
    /\ ~Contains(ops, "get_uniform_location")

\* The number of floats uploaded to the mesh's vertex buffer.
UploadedFloats == dev.bufferFloats[mesh.vbo]

\* The frames the device holds: the back buffer and the one on screen.
Frames == {f \in {dev.framebuffer, dev.presented} : f.state = "drawn"}

C13_CountAndDraw ==
    mesh.kind = "Mesh" =>
        /\ mesh.vbo \in DOMAIN dev.bufferFloats
        /\ mesh.vertex_count >= 0
        /\ FloatsPerVertex * mesh.vertex_count <= UploadedFloats
        /\ UploadedFloats < FloatsPerVertex * (mesh.vertex_count + 1)
        /\ UploadedFloats = CubeFloats => mesh.vertex_count = 36
        /\ \A f \in Frames :
              f.vao = mesh.vao /\ f.first = 0 /\ f.count = mesh.vertex_count
        /\ \A a \in dev.attribs :
              a.vao = mesh.vao /\ mesh.vertex_count > 0 =>
                  (mesh.vertex_count - 1) * a.stride + a.offset + 4 * a.size
                      <= 4 * dev.bufferFloats[a.buffer]

\* C13: for a vertex array of L floats the mesh's vertex count is floor(L/6)
\* (36 for the cube's 216), the mesh value never changes once constructed,
\* every draw covers vertices 0..vertex_count of the mesh's vertex array, and
\* no attribute of a drawn vertex lies beyond the L floats uploaded, whether
\* or not L is a multiple of 6.
C13_VertexCountIsFloor ==
    /\ []C13_CountAndDraw
    /\ [][mesh.kind = "Mesh" => mesh' = mesh]_vars

\* A frame of a mesh whose array ends in a partial vertex is on screen.
C13_PartialVertexDrawn ==
    /\ mesh.kind = "Mesh"
    /\ dev.presented.state = "drawn"
    /\ mesh.vertex_count > 0
    /\ UploadedFloats % FloatsPerVertex # 0

\* swap_buffers called in the current state with no redraw pending.
SwapFrom(swapOk) ==
    swap_buffers([HandlerState EXCEPT !.redraw = FALSE], swapOk)

\* C14: swap_buffers returns Ok exactly when the backend swap succeeded; a
\* failure returns the error kind that only presentation produces (the variant
\* OpenGL, which no startup failure carries) with the backend's message,
\* requests no redraw and shows no frame; every successful return has
\* requested exactly one redraw. The frame handler's trace agrees.
C14_SwapBuffersResult ==
    /\ pc = "loop" =>
          /\ SwapFrom(TRUE).locals.presented = Ok("unit")
          /\ SwapFrom(TRUE).redraw
          /\ Occurrences(SwapFrom(TRUE).ops, "request_redraw") = 1
          /\ SwapFrom(FALSE).locals.presented.kind = "Err"
          /\ SwapFrom(FALSE).locals.presented.variant = "OpenGL"
          /\ SwapFrom(FALSE).locals.presented.payload = "backend message"
          /\ ~SwapFrom(FALSE).redraw
          /\ ~Contains(SwapFrom(FALSE).ops, "request_redraw")
          /\ SwapFrom(FALSE).dev = dev
    /\ (pc = "return" /\ result.kind = "Err") => result.variant # "OpenGL"
    /\ (Handled("RedrawRequested") /\ pc = "loop") =>
          /\ Contains(ops, "swap_buffers")
          /\ last.presentOk <=> Contains(ops, "request_redraw")
          /\ last.presentOk => loop.redraw /\ Occurrences(ops, "request_redraw") = 1
          /\ ~last.presentOk => ~loop.redraw /\ Contains(ops, "tracing::error")

\* A frame was swapped successfully and its redraw request is pending.
C14_SwapRequestedRedraw ==
    /\ Handled("RedrawRequested")
    /\ pc = "loop"
    /\ last.presentOk
    /\ loop.redraw
    /\ Occurrences(ops, "request_redraw") = 1

\* C15: once CloseRequested has been handled the loop ends and the process
\* exits, whether or not a redraw request is pending and without any pending
\* or requested redraw having to be delivered.
C15_CloseEndsLoop ==
    [](((pc = "loop" /\ loop.exit) => <>(pc # "loop"))
       /\ ((pc = "loop" /\ loop.exit /\ loop.redraw) => <>(pc = "exited")))

\* The loop has ended on CloseRequested with a redraw request still pending.
C15_ExitedWithRedrawPending ==
    /\ pc = "exited"
    /\ result = Ok("unit")
    /\ last.ev.kind = "CloseRequested"
    /\ loop.redraw

\* C16: when the loader cannot resolve a mandatory entry point, building the
\* device handle returns an error: no handle with an unresolved entry point
\* exists, nothing is called through one, and the failure is an Err value,
\* not an abort inside an unresolved function.
C16_DeviceInitError ==
    /\ gl # "unbuilt" => \A fn \in Gl3Functions \cup {"glGetString"} : Resolved(gl, fn)
    /\ result # Panic("fn not loaded")

\* The frame a handler that got as far as the draw has produced: on screen
\* after a successful swap, still in the back buffer after a failed one.
FrameOf(d, presentOk) == IF presentOk THEN d.presented ELSE d.framebuffer

\* The steps in which window_event handles a RedrawRequested: the handler's
\* trace starts with the assignment of self.model.
RedrawHandled ==
    /\ pc = "loop"
    /\ ~Tick
    /\ Len(ops') > 0
    /\ ops'[1] = "self.model"

\* The handler of RedrawRequested at elapsed time t = now - start_time.
C17_FrameModel ==
    /\ model' = MatMul(FromAxisAngle("y", 7 * (now - start_time)),
                       FromAxisAngle("x", 5 * (now - start_time)))
    /\ now = start_time => model' = Identity
    /\ Contains(ops', "model") =>
          dev'.uniforms[shader'.uniforms["model"]] = model'
    /\ Contains(ops', "draw_arrays") =>
          /\ FrameOf(dev', last'.presentOk).state = "drawn"
          /\ FrameOf(dev', last'.presentOk).uniforms[shader'.uniforms["model"]] = model'

\* C17: every handler of RedrawRequested sets the model matrix to
\* rotation_y(0.7 t) * rotation_x(0.5 t) for the elapsed time t it reads (the
\* identity at t = 0), uploads that matrix, and the frame it draws uses it.
C17_ModelMatrixOfThisFrame == [][RedrawHandled => C17_FrameModel]_vars

\* A frame drawn after time has passed is on screen with its rotated model.
C17_RotatedFrameShown ==
    /\ Handled("RedrawRequested")
    /\ last.presentOk
    /\ now > start_time
    /\ model # Identity
    /\ dev.presented.state = "drawn"
    /\ dev.presented.uniforms[shader.uniforms["model"]] = model

\* The objects Shader::new had the device create.
ShaderObjects ==
    {o \in dev.created : o.kind \in {"vertex_shader", "fragment_shader", "program"}}

\* Shader::new has returned an error to main.
ShaderFailed ==
    /\ pc = "return"
    /\ result.kind = "Err"
    /\ result.variant \in {"Io", "ShaderCompilation"}
    /\ mesh.kind = "Mesh"

\* C18: after a failed Shader construction no object it created remains: a
\* vertex stage compiled before the fragment stage failed is deleted, and
\* after a failed link the program and both stages are deleted.
C18_NothingLeftAfterFailure ==
    ShaderFailed => \A o \in ShaderObjects : o \notin dev.live

\* The attribute layout Mesh::new records for the mesh m.
MeshLayout(m) ==
    {[vao |-> m.vao, index |-> 0, size |-> 3, stride |-> 24, offset |-> 0, buffer |-> m.vbo],
     [vao |-> m.vao, index |-> 1, size |-> 3, stride |-> 24, offset |-> 12, buffer |-> m.vbo]}

\* The calls of one Mesh::draw, as they appear in a handler's trace.
DrawSteps == <<"bind_vertex_array(vao)", "draw_arrays", "bind_vertex_array(None)">>

IsDrawStep(op) == \E i \in 1..Len(DrawSteps) : DrawSteps[i] = op

\* C19: in every state between operations no vertex-array object is bound;
\* once the mesh exists the attribute layout is the one recorded at upload
\* (attribute 0: 3 floats, stride 24, offset 0; attribute 1: 3 floats, stride
\* 24, offset 12; both enabled, both in the mesh's buffer); a handler that
\* draws binds the mesh's vertex array, issues one draw, and unbinds, and the
\* frame is a triangle draw over vertices 0..vertex_count of that array.
C19_DrawBindsAndUnbinds ==
    /\ dev.boundVao = NoObject
    /\ mesh.kind = "Mesh" =>
          /\ dev.attribs = MeshLayout(mesh)
          /\ dev.enabledAttribs = {<<mesh.vao, 0>>, <<mesh.vao, 1>>}
    /\ (pc \in {"loop", "return"} /\ Contains(ops, "draw_arrays")) =>
          SelectSeq(ops, IsDrawStep) = DrawSteps
    /\ \A f \in Frames :
          /\ f.mode = "TRIANGLES"
          /\ f.vao = mesh.vao
          /\ f.first = 0
          /\ f.count = mesh.vertex_count

\* A frame has been drawn and the vertex array is unbound again.
C19_DrawnAndUnbound ==
    /\ Handled("RedrawRequested")
    /\ Contains(ops, "draw_arrays")
    /\ ops[Len(ops)] = "request_redraw"
    /\ dev.boundVao = NoObject
    /\ dev.attribs = MeshLayout(mesh)

\* The kinds of event the program has code for; last.ev is the event of the
\* latest handler, "AboutToWait" standing for the idle tick.
KnownKinds == {"CloseRequested", "Resized", "RedrawRequested", "AboutToWait"}

\* What a step taken while the loop runs leaves alone.
C20_LoopStep ==
    pc = "loop" =>
        /\ start_time' = start_time
        /\ view' = view
        /\ last'.ev.kind = "Resized" => model' = model /\ shader' = shader
        /\ last'.ev.kind = "RedrawRequested" =>
              projection' = projection /\ dev'.viewport = dev.viewport
        /\ last'.ev.kind = "AboutToWait" =>
              UNCHANGED <<dev, shader, projection, model, window>>
        /\ (last'.ev.kind \notin KnownKinds /\ pc' = "loop" /\ ~Tick) =>
              /\ ops' = <<>>
              /\ UNCHANGED <<result, exitCode, window, context, surface, gl, dev, mesh,
                             shader, projection, view, model, start_time, loop, now>>

\* C20: while the loop runs no step changes the start timestamp or the view
\* matrix; a Resized leaves the model matrix and the uniform cache as they
\* were, a RedrawRequested the projection and the viewport, the idle tick the
\* device and the scene, and an event of a kind the handler has no arm for
\* changes nothing and issues no device call.
C20_EventsLeaveTheRestAlone ==
    /\ [](loop.entered => view = create_view_matrix /\ start_time <= now)
    /\ [][C20_LoopStep]_vars

\* An ignored event was handled after the scene had been rotated and the
\* window resized.
C20_IgnoredEventHandled ==
    /\ Handled("Focused")
    /\ pc = "loop"
    /\ ops = <<>>
    /\ model # Identity
    /\ window.size # <<InitWidth, InitHeight>>
    /\ Cached(shader) # {}

\* A projection a frame can be drawn with: its aspect is a positive finite number.
Usable(p) == p # None /\ p.aspect.class = "finite" /\ p.aspect.num > 0

\* C21: the handler of Resized completes for every size, also with width 0 or
\* height 0: it does not abort, it does not end the loop, and the projection
\* it leaves is usable.
C21_ResizeNeverAborts ==
    last.ev.kind = "Resized" =>
        /\ last.handled
        /\ result.kind # "Panic"
        /\ Usable(projection)

\* The handler of Resized completes for every size with a positive width.
C21_ResizeCompletesForPositiveWidth ==
    (last.ev.kind = "Resized" /\ last.ev.width > 0) =>
        last.handled /\ result.kind # "Panic"

\* C22: set_matrix4 never aborts the frame: when the device cannot resolve a
\* uniform's name in the linked program the call completes, the application
\* goes on, and every cache entry is a location the device returned for its
\* name.
C22_UnresolvableNameIsHarmless ==
    /\ last.ev.kind = "RedrawRequested" => last.handled /\ result.kind # "Panic"
    /\ \A n \in Cached(shader) :
          /\ GlGetUniformLocation(dev, n).kind # "None"
          /\ shader.uniforms[n] = GlGetUniformLocation(dev, n).value

\* Every cache entry is a location the device returned for its name.
C22_CacheHoldsDeviceLocations ==
    \A n \in Cached(shader) :
        /\ GlGetUniformLocation(dev, n).kind # "None"
        /\ shader.uniforms[n] = GlGetUniformLocation(dev, n).value

====
